---- MODULE Spec2Model ----
(***************************************************************************)
(* Model of the postage stamp calculator (src/app.py).                     *)
(*                                                                         *)
(*   calculate_stamp_combos  the combination search: dollars -> cents by   *)
(*                           int(x * 100) on IEEE-754 doubles, then        *)
(*                           itertools.combinations_with_replacement for   *)
(*                           every size 1..max_stamps, chained, filtered   *)
(*                           by price_cents <= sum <= max_price_cents.     *)
(*   main                    one execution of the Streamlit script: parse  *)
(*                           the denomination text, read the three number  *)
(*                           inputs and, when the button was pressed,      *)
(*                           validate and call calculate_stamp_combos.     *)
(*                                                                         *)
(* Amounts in dollars are decimals with two places, written as the number  *)
(* of hundredths k (the text "0.29" is k = 29); the double the program     *)
(* holds for it is the double nearest to k/100.                            *)
(***************************************************************************)
EXTENDS Integers, Sequences, FiniteSets, TLC

VARIABLES
    stamps_input,      \* text of the denomination field (sequence of characters)
    price,             \* target postage number input (hundredths, or None)
    max_price,         \* maximum price number input (hundredths, or None)
    max_stamps,        \* maximum number of stamps input (or None)
    stamps,            \* the local `stamps` (meaningful when stamps_bound)
    stamps_bound,      \* whether the local `stamps` was assigned in this run
    messages,          \* st.error / st.info / st.success / st.warning shown by this run
    called,            \* calculate_stamp_combos was invoked
    price_cents,       \* local of calculate_stamp_combos
    max_price_cents,   \* local of calculate_stamp_combos
    valid_combos,      \* the returned list of tuples of stamp values
    picked,            \* for each returned tuple, the positions in `stamps` it was built from
    previous,          \* arguments and result of the call before the last one
    button,            \* st.button(...) returned True in this run
    raised             \* exception that left main() in this run, or "none"

vars == <<stamps_input, price, max_price, max_stamps, stamps, stamps_bound,
          messages, called, price_cents, max_price_cents, valid_combos,
          picked, previous, button, raised>>

----------------------------------------------------------------------------
(* Bounds of the model.                                                    *)

\* longest denomination list handed to calculate_stamp_combos directly
MaxLen == 3
\* largest max_stamps
MaxCount == 2
\* largest dollar amount, in hundredths
MaxCents == 30
\* dollar amounts range over MaxCents - AmountSpan .. MaxCents
AmountSpan == 3
\* longest denomination text
MaxText == 3

\* value=None of the number inputs
None == -1

\* significand width of a Python float (IEEE-754 binary64)
MantissaBits == 53

Amounts == (MaxCents - AmountSpan)..MaxCents
Denominations == {0, 14, 15, 29}
Chars == {"1", "4", ",", " ", "x"}

----------------------------------------------------------------------------
(* Natural numbers of any size, as little-endian sequences of bits: the    *)
(* significands of doubles and their exact products do not fit TLC's       *)
(* 32-bit integers.  Carries are propagated sixteen bits at a time.        *)

Bit(b, i) == IF i >= 1 /\ i <= Len(b) THEN b[i] ELSE 0

Nibble(b, p) == Bit(b, p) + 2 * Bit(b, p + 1) + 4 * Bit(b, p + 2) + 8 * Bit(b, p + 3)

\* the number held by bits p .. p + 15 of b
Chunk(b, p) ==
    Nibble(b, p) + 16 * Nibble(b, p + 4) + 256 * Nibble(b, p + 8)
        + 4096 * Nibble(b, p + 12)

\* the sixteen bits of n < 65536
ChunkBits(n) == [i \in 1..16 |-> (n \div (2 ^ (i - 1))) % 2]

AnyOne(b) == \E i \in 1..Len(b) : b[i] = 1

\* position of the highest one of b, 0 when there is none
HighestOne(b) ==
    IF AnyOne(b)
    THEN CHOOSE i \in 1..Len(b) : b[i] = 1 /\ \A j \in (i + 1)..Len(b) : b[j] = 0
    ELSE 0

\* position of the lowest zero of b, Len(b) + 1 when there is none
LowestZero(b) ==
    IF \E i \in 1..Len(b) : b[i] = 0
    THEN CHOOSE i \in 1..Len(b) : b[i] = 0 /\ \A j \in 1..(i - 1) : b[j] = 1
    ELSE Len(b) + 1

\* without the zeros above the highest one
Trim(b) == SubSeq(b, 1, HighestOne(b))

RECURSIVE Nat2Bits(_)
Nat2Bits(n) ==
    IF n = 0 THEN <<>>
    ELSE Trim(ChunkBits(n % 65536) \o Nat2Bits(n \div 65536))

RECURSIVE Bits2Nat(_)
Bits2Nat(b) ==
    IF Len(b) <= 16 THEN Chunk(b, 1)
    ELSE Chunk(b, 1) + 65536 * Bits2Nat(SubSeq(b, 17, Len(b)))

Shl(b, s) == IF b = <<>> THEN <<>> ELSE [i \in 1..s |-> 0] \o b

Shr(b, s) == IF s >= Len(b) THEN <<>> ELSE SubSeq(b, s + 1, Len(b))

\* b with the zero at z set and the ones below it cleared
CarryInto(b, z) ==
    [i \in 1..(IF z > Len(b) THEN z ELSE Len(b)) |->
        IF i < z THEN 0 ELSE IF i = z THEN 1 ELSE b[i]]

\* b + 1
Inc(b) == CarryInto(b, LowestZero(b))

\* b * c + carry from bit p upwards, for small c; t is the product of the
\* chunk at p plus the incoming carry
RECURSIVE MulCarry(_, _, _, _)
RECURSIVE MulChunk(_, _, _, _)
MulChunk(b, c, p, t) == ChunkBits(t % 65536) \o MulCarry(b, c, p + 16, t \div 65536)

MulCarry(b, c, p, carry) ==
    IF p > Len(b) THEN Nat2Bits(carry)
    ELSE MulChunk(b, c, p, Chunk(b, p) * c + carry)

MulSmall(b, c) == Trim(MulCarry(b, c, 1, 0))

\* long division by the small d of the bits of b from bit p + 15 downwards,
\* with incoming remainder rem: the remainder, then the quotient bits; cur is
\* the remainder followed by the chunk at p
RECURSIVE DivStep(_, _, _, _)
RECURSIVE DivChunk(_, _, _, _)
DivChunk(b, d, p, cur) == DivStep(b, d, p - 16, cur % d) \o ChunkBits(cur \div d)

DivStep(b, d, p, rem) ==
    IF p < 1 THEN <<rem>>
    ELSE DivChunk(b, d, p, rem * 65536 + Chunk(b, p))

QuotRem(res) == [q |-> Trim(Tail(res)), r |-> res[1]]

DivSmall(b, d) == QuotRem(DivStep(b, d, 16 * ((Len(b) - 1) \div 16) + 1, 0))

----------------------------------------------------------------------------
(* IEEE-754 binary64, round to nearest, ties to even.  A double is a       *)
(* record [m, x]: the value m * 2^x, m a bit sequence of at most           *)
(* MantissaBits + 1 bits.                                                  *)

\* whether dropping the lowest d bits of b rounds upwards: the highest
\* dropped bit is set, and either something is set below it or the result
\* would be odd
RoundsUp(b, d, sticky) ==
    Bit(b, d) = 1 /\ (sticky \/ AnyOne(SubSeq(b, 1, d - 1)) \/ Bit(b, d + 1) = 1)

DropBits(b, d, sticky) ==
    IF RoundsUp(b, d, sticky) THEN Inc(Shr(b, d)) ELSE Shr(b, d)

\* b * 2^x (plus a non-zero tail below b when sticky) to MantissaBits bits
RoundNearestEven(b, x, sticky) ==
    IF Len(b) <= MantissaBits THEN [m |-> b, x |-> x]
    ELSE [m |-> DropBits(b, Len(b) - MantissaBits, sticky),
          x |-> x + Len(b) - MantissaBits]

RoundQuotient(dv, x) == RoundNearestEven(dv.q, x, dv.r # 0)

\* the double nearest to kb / 100: the quotient of kb * 2^e by 100 is taken
\* with ten bits more than the significand holds
FloatOfBits(kb) ==
    RoundQuotient(DivSmall(Shl(kb, MantissaBits + 10 - Len(kb)), 100),
                  Len(kb) - MantissaBits - 10)

\* the double nearest to the decimal k/100 (what the number input delivers)
Float(k) == IF k = 0 THEN [m |-> <<>>, x |-> 0] ELSE FloatOfBits(Nat2Bits(k))

\* f * c, for a double f and a small integer c
FloatMul(f, c) == RoundNearestEven(MulSmall(f.m, c), f.x, FALSE)

\* int(f): truncation towards zero of a non-negative double
int(f) ==
    IF f.x >= 0 THEN Bits2Nat(Shl(f.m, f.x))
    ELSE Bits2Nat(Shr(f.m, 0 - f.x))

\* int(price_dollars * 100)
ToCents(k) == int(FloatMul(Float(k), 100))

\* the conversion of every amount of the model, computed once
CentsTable == {[dollars |-> k, truncated |-> ToCents(k)] : k \in Amounts}

CentsOf(k) == CHOOSE c \in CentsTable : c.dollars = k

----------------------------------------------------------------------------
(* calculate_stamp_combos                                                  *)

RECURSIVE Sum(_)
Sum(t) == IF t = <<>> THEN 0 ELSE t[1] + Sum(Tail(t))

\* tuple(pool[i] for i in indices)
Combo(pool, indices) == [j \in 1..Len(indices) |-> pool[indices[j]]]

\* one step of combinations_with_replacement over k positions: the rightmost
\* index that is not the last position is advanced, and every index to its
\* right is set to the same value
CWRLast(indices, k) ==
    CHOOSE i \in 1..Len(indices) :
        indices[i] # k /\ \A j \in (i + 1)..Len(indices) : indices[j] = k

\* CWRSet that restarts the indices to the right at the first position
CWRSetRestart(indices, i) ==
    [j \in 1..Len(indices) |->
        IF j < i THEN indices[j] ELSE IF j = i THEN indices[i] + 1 ELSE 1]

CWRSet(indices, i) ==
    [j \in 1..Len(indices) |-> IF j < i THEN indices[j] ELSE indices[i] + 1]

CWRAdvance(indices, k) == CWRSet(indices, CWRLast(indices, k))

RECURSIVE CWRFrom(_, _)
CWRFrom(indices, k) ==
    IF \A j \in 1..Len(indices) : indices[j] = k THEN <<indices>>
    ELSE <<indices>> \o CWRFrom(CWRAdvance(indices, k), k)

\* itertools.combinations(pool, n) in place of combinations_with_replacement:
\* no position is taken twice
combinations(k, n) ==
    IF k = 0 /\ n > 0 THEN <<>>
    ELSE SelectSeq(CWRFrom([j \in 1..n |-> 1], k),
                   LAMBDA t : \A j \in 1..(Len(t) - 1) : t[j] < t[j + 1])

\* itertools.combinations_with_replacement(pool, n) for a pool of k elements,
\* as tuples of positions (1-based), in the order it yields them
combinations_with_replacement(k, n) ==
    IF k = 0 /\ n > 0 THEN <<>> ELSE CWRFrom([j \in 1..n |-> 1], k)

\* only the combinations of size max_stamps
chainLastSize(k, n, maxn) == combinations_with_replacement(k, maxn)

\* range(1, max_stamps + 2) in place of range(1, max_stamps + 1)
RECURSIVE chainOneMore(_, _, _)
chainOneMore(k, n, maxn) ==
    IF n > maxn + 1 THEN <<>>
    ELSE combinations_with_replacement(k, n) \o chainOneMore(k, n + 1, maxn)

\* itertools.chain(*(combinations_with_replacement(stamps, n)
\*                   for n in range(1, max_stamps + 1))), from size n on
RECURSIVE chain(_, _, _)
chain(k, n, maxn) ==
    IF n > maxn THEN <<>>
    ELSE combinations_with_replacement(k, n) \o chain(k, n + 1, maxn)

\* InRange without its upper bound
InRangeNoUpper(total, lo, hi) == total >= lo

\* InRange with the upper bound excluded
InRangeStrict(total, lo, hi) == total >= lo /\ total < hi

\* InRange with the second comparison turned round
InRangeFlipped(total, lo, hi) == total >= lo /\ total >= hi

\* the condition of the list comprehension
InRange(total, lo, hi) == total >= lo /\ total <= hi

\* the positions of the combinations the list comprehension keeps
SelectCombos(pool, maxn, lo, hi) ==
    SelectSeq(chain(Len(pool), 1, maxn),
              LAMBDA indices : InRange(Sum(Combo(pool, indices)), lo, hi))

\* the two locals, the returned list, and the positions behind each tuple
Returned(pool, lo, hi, sel) ==
    [price_cents     |-> lo,
     max_price_cents |-> hi,
     picked          |-> sel,
     combos          |-> [i \in 1..Len(sel) |-> Combo(pool, sel[i])]]

Search(pool, maxn, lo, hi) == Returned(pool, lo, hi, SelectCombos(pool, maxn, lo, hi))

\* calculate_stamp_combos(price_dollars, stamps, max_stamps, max_price_dollars)
calculate_stamp_combos(price_dollars, pool, maxn, max_price_dollars) ==
    Search(pool, maxn, CentsOf(price_dollars).truncated,
           CentsOf(max_price_dollars).truncated)

\* the call has returned r
Store(r) ==
    /\ called' = TRUE
    /\ price_cents' = r.price_cents
    /\ max_price_cents' = r.max_price_cents
    /\ valid_combos' = r.combos
    /\ picked' = r.picked

\* what `previous` holds of the call that is about to be repeated
LastCall ==
    [called |-> called, max_price |-> max_price, max_stamps |-> max_stamps,
     combos |-> valid_combos]

NoCall == [called |-> FALSE, max_price |-> None, max_stamps |-> None, combos |-> <<>>]

NotCalled ==
    /\ called' = FALSE
    /\ price_cents' = None
    /\ max_price_cents' = None
    /\ valid_combos' = <<>>
    /\ picked' = <<>>

----------------------------------------------------------------------------
(* The search called directly, on arguments drawn from bounded sets.       *)

RECURSIVE SeqsUpTo(_, _)
SeqsUpTo(S, n) ==
    IF n = 0 THEN {<<>>}
    ELSE SeqsUpTo(S, n - 1)
         \cup {Append(t, x) : t \in {u \in SeqsUpTo(S, n - 1) : Len(u) = n - 1}, x \in S}

StampLists == SeqsUpTo(Denominations, MaxLen)

InitFinder ==
    /\ stamps \in StampLists
    /\ price \in Amounts
    /\ max_price \in Amounts
    /\ max_stamps \in 1..MaxCount
    /\ stamps_bound = TRUE
    /\ stamps_input = <<>>
    /\ messages = {}
    /\ called = FALSE
    /\ price_cents = None
    /\ max_price_cents = None
    /\ valid_combos = <<>>
    /\ picked = <<>>
    /\ previous = NoCall
    /\ button = FALSE
    /\ raised = "none"

\* the first call
Call ==
    /\ ~called
    /\ Store(calculate_stamp_combos(price, stamps, max_stamps, max_price))
    /\ UNCHANGED <<stamps_input, price, max_price, max_stamps, stamps,
                   stamps_bound, messages, previous, button, raised>>

\* a further call with another maximum, everything else as before
CallWithMaximum(mp) ==
    /\ called
    /\ mp # max_price
    /\ max_price' = mp
    /\ Store(calculate_stamp_combos(price, stamps, max_stamps, mp))
    /\ previous' = LastCall
    /\ UNCHANGED <<stamps_input, price, max_stamps, stamps, stamps_bound,
                   messages, button, raised>>

\* a further call with another max_stamps, everything else as before
CallWithMaxStamps(n) ==
    /\ called
    /\ n # max_stamps
    /\ max_stamps' = n
    /\ Store(calculate_stamp_combos(price, stamps, n, max_price))
    /\ previous' = LastCall
    /\ UNCHANGED <<stamps_input, price, max_price, stamps, stamps_bound,
                   messages, button, raised>>

NextFinder ==
    \/ Call
    \/ \E mp \in Amounts : CallWithMaximum(mp)
    \/ \E n \in 1..MaxCount : CallWithMaxStamps(n)

FinderSpec == InitFinder /\ [][NextFinder]_vars

----------------------------------------------------------------------------
(* main(): the denomination text                                           *)

Digits == {"0", "1", "2", "3", "4", "5", "6", "7", "8", "9"}

DigitValue(c) ==
    CASE c = "0" -> 0 [] c = "1" -> 1 [] c = "2" -> 2 [] c = "3" -> 3
      [] c = "4" -> 4 [] c = "5" -> 5 [] c = "6" -> 6 [] c = "7" -> 7
      [] c = "8" -> 8 [] c = "9" -> 9

\* stamps_input.split(','): the items between the commas, from position i on,
\* cur being the item read so far
RECURSIVE SplitFrom(_, _, _)
SplitFrom(text, i, cur) ==
    IF i > Len(text) THEN <<cur>>
    ELSE IF text[i] = "," THEN <<cur>> \o SplitFrom(text, i + 1, <<>>)
    ELSE SplitFrom(text, i + 1, Append(cur, text[i]))

split(text) == SplitFrom(text, 1, <<>>)

\* x.strip(): without the blanks at both ends
strip(x) ==
    IF \A i \in 1..Len(x) : x[i] = " " THEN <<>>
    ELSE SubSeq(x,
                CHOOSE i \in 1..Len(x) : x[i] # " " /\ \A j \in 1..(i - 1) : x[j] = " ",
                CHOOSE i \in 1..Len(x) : x[i] # " " /\ \A j \in (i + 1)..Len(x) : x[j] = " ")

\* int(x) raises ValueError unless x is a non-empty run of digits
IsInt(x) == x # <<>> /\ \A i \in 1..Len(x) : x[i] \in Digits

RECURSIVE IntValue(_)
IntValue(x) ==
    IF x = <<>> THEN 0
    ELSE 10 * IntValue(SubSeq(x, 1, Len(x) - 1)) + DigitValue(x[Len(x)])

Stripped(items) == [i \in 1..Len(items) |-> strip(items[i])]

\* the x.strip() of the items that pass `if x.strip()`
Items(text) == SelectSeq(Stripped(split(text)), LAMBDA x : x # <<>>)

\* [int(x) for x in items]: ok is FALSE when an int() raised ValueError
Ints(items) ==
    IF \A i \in 1..Len(items) : IsInt(items[i])
    THEN [ok |-> TRUE, value |-> [i \in 1..Len(items) |-> IntValue(items[i])]]
    ELSE [ok |-> FALSE, value |-> <<>>]

\* [int(x.strip()) for x in stamps_input.split(',') if x.strip()]
ParseStamps(text) == Ints(Items(text))

Msg(kind, text) == [kind |-> kind, text |-> text]

\* the try block of "Parse stamps", given the outcome of the comprehension
TryParse(parsed) ==
    IF parsed.ok
    THEN [bound  |-> TRUE,
          stamps |-> parsed.value,
          shown  |-> IF parsed.value # <<>>
                     THEN {Msg("success", "Loaded stamp denominations")}
                     ELSE {Msg("error", "Please enter at least one stamp value")}]
    ELSE [bound  |-> FALSE,
          stamps |-> <<>>,
          shown  |-> {Msg("error", "Please enter valid numbers separated by commas")}]

\* what the "Parse stamps" block shows and whether it binds `stamps`
ParseBlock(text) ==
    IF text # <<>> THEN TryParse(ParseStamps(text))
    ELSE [bound  |-> FALSE,
          stamps |-> <<>>,
          shown  |-> {Msg("info", "Please enter your available stamp denominations above")}]

\* the texts of the model
Texts == SeqsUpTo(Chars, MaxText)

----------------------------------------------------------------------------
(* main(): one execution of the script                                     *)

Quiet(shown) == [shown |-> shown, invoked |-> FALSE, exception |-> "none", result |-> <<>>]

\* the body of the try block once calculate_stamp_combos has returned r
Report(r) ==
    [shown |-> IF r.combos # <<>>
               THEN {Msg("success", "Found valid stamp combinations"),
                     Msg("info", "Lowest Overpayment"),
                     Msg("info", "Fewest Stamps")}
               ELSE {Msg("warning", "No valid stamp combinations found with these parameters."),
                     Msg("info", "Try increasing the maximum price limit or the maximum number stamps allowed.")},
     invoked |-> TRUE, exception |-> "none", result |-> r]

\* the block under `if st.button(...)`, reached with the button pressed
ButtonBlock(text, p, mp, ms, parse) ==
    IF text = <<>> THEN Quiet({Msg("error", "Please enter stamp denominations")})
    ELSE IF p = None THEN Quiet({Msg("error", "Please enter a target postage amount")})
    ELSE IF mp = None THEN Quiet({Msg("error", "Please enter a maximum price")})
    ELSE IF ms = None THEN Quiet({Msg("error", "Please enter a maximum number of stamps")})
    ELSE IF ~parse.bound
    \* reading the unassigned local `stamps` raises UnboundLocalError, which
    \* `except ValueError` does not catch
    THEN [shown |-> {}, invoked |-> FALSE, exception |-> "UnboundLocalError",
          result |-> <<>>]
    ELSE Report(calculate_stamp_combos(p, parse.stamps, ms, mp))

\* the end of an execution that parsed `parse` and, with the button pressed,
\* did `press`
Outcome(parse, press) ==
    /\ stamps' = parse.stamps
    /\ stamps_bound' = parse.bound
    /\ messages' = parse.shown \cup press.shown
    /\ raised' = press.exception
    /\ IF press.invoked THEN Store(press.result) ELSE NotCalled

Pressed(text, p, mp, ms, parse, pressed) ==
    Outcome(parse, IF pressed THEN ButtonBlock(text, p, mp, ms, parse) ELSE Quiet({}))

\* main() with the widgets holding text, p, mp, ms
main(text, p, mp, ms, pressed) ==
    /\ stamps_input' = text
    /\ button' = pressed
    /\ previous' = previous
    /\ price' = p
    /\ max_price' = mp
    /\ max_stamps' = ms
    /\ Pressed(text, p, mp, ms, ParseBlock(text), pressed)

\* the first execution: every widget at its default
Init ==
    /\ stamps_input = <<>>
    /\ price = None
    /\ max_price = None
    /\ max_stamps = None
    /\ stamps = <<>>
    /\ stamps_bound = FALSE
    /\ messages = ParseBlock(<<>>).shown
    /\ called = FALSE
    /\ price_cents = None
    /\ max_price_cents = None
    /\ valid_combos = <<>>
    /\ picked = <<>>
    /\ previous = NoCall
    /\ button = FALSE
    /\ raised = "none"

\* the user commits another denomination text
EditStamps(text) ==
    /\ text # stamps_input
    /\ main(text, price, max_price, max_stamps, FALSE)

\* the user sets or clears the target amount (min_value=0.01); the maximum
\* price widget is declared with min_value=price, so it either keeps a value
\* that is still allowed or falls back to value=None
EditPrice(p) ==
    /\ p # price
    /\ p = None \/ p >= 1
    /\ \E mp \in {None, max_price} :
        /\ mp = None \/ p = None \/ mp >= p
        /\ main(stamps_input, p, mp, max_stamps, FALSE)

\* the user sets or clears the maximum price (min_value=price if price else 0.01)
EditMaxPrice(mp) ==
    /\ mp # max_price
    /\ mp = None \/ mp >= (IF price # None THEN price ELSE 1)
    /\ main(stamps_input, price, mp, max_stamps, FALSE)

\* the user sets or clears the maximum number of stamps (min_value=1, max_value=10)
EditMaxStamps(ms) ==
    /\ ms # max_stamps
    /\ ms = None \/ (ms >= 1 /\ ms <= 10)
    /\ main(stamps_input, price, max_price, ms, FALSE)

\* the user presses "Calculate Stamp Combinations"
ClickCalculate ==
    /\ button' = TRUE
    /\ main(stamps_input, price, max_price, max_stamps, TRUE)

Next ==
    \/ \E text \in Texts : EditStamps(text)
    \/ \E p \in Amounts \cup {None} : EditPrice(p)
    \/ \E mp \in Amounts \cup {None} : EditMaxPrice(mp)
    \/ \E ms \in (1..MaxCount) \cup {None} : EditMaxStamps(ms)
    \/ ClickCalculate

Spec == Init /\ [][Next]_vars

----------------------------------------------------------------------------
(* Properties of calculate_stamp_combos, checked under FinderSpec.  The    *)
(* bounds of the sum filter are the locals price_cents and                 *)
(* max_price_cents.                                                        *)

Positive == \A i \in 1..Len(stamps) : stamps[i] > 0

Distinct == \A i, j \in 1..Len(stamps) : i # j => stamps[i] # stamps[j]

Range(t) == {t[i] : i \in 1..Len(t)}

Occurrences(t, v) == Cardinality({i \in 1..Len(t) : t[i] = v})

\* a and b are the same multiset of stamp values
SameMultiset(a, b) ==
    /\ Len(a) = Len(b)
    /\ \A v \in Range(a) \cup Range(b) : Occurrences(a, v) = Occurrences(b, v)

\* how many entries of the list are the multiset c
Entries(list, c) == Cardinality({i \in 1..Len(list) : SameMultiset(list[i], c)})

\* every entry of list a is in list b, with at least the same multiplicity
Included(a, b) == \A i \in 1..Len(a) : Entries(a, a[i]) <= Entries(b, a[i])

NonDecreasing(t) == \A j \in 1..(Len(t) - 1) : t[j] <= t[j + 1]

LexLess(a, b) ==
    \E k \in 1..Len(a) : a[k] < b[k] /\ \A m \in 1..(k - 1) : a[m] = b[m]

C3_EnumerationOrder ==
    called =>
        /\ Len(picked) = Len(valid_combos)
        /\ \A i \in 1..Len(valid_combos) :
            /\ valid_combos[i] = Combo(stamps, picked[i])
            /\ NonDecreasing(picked[i])
        /\ \A i, j \in 1..Len(valid_combos) :
            i < j =>
                /\ Len(valid_combos[i]) <= Len(valid_combos[j])
                /\ Len(valid_combos[i]) = Len(valid_combos[j])
                       => LexLess(picked[i], picked[j])

\* a call that returned two sizes, two combinations of one size, and a tuple
\* whose stamp values decrease
C3_Witness ==
    /\ called
    /\ \E i, j \in 1..Len(valid_combos) : Len(valid_combos[i]) < Len(valid_combos[j])
    /\ \E i, j \in 1..Len(valid_combos) :
        i < j /\ Len(valid_combos[i]) = Len(valid_combos[j])
    /\ \E i \in 1..Len(valid_combos) : ~NonDecreasing(valid_combos[i])

\* C4: a call that differs from the one before only in its maximum returns
\* every combination of the call before when the maximum is not smaller, and
\* nothing the call before did not return when it is not larger.
C4_MonotoneInMaximum ==
    (called /\ previous.called /\ previous.max_stamps = max_stamps) =>
        /\ previous.max_price <= max_price => Included(previous.combos, valid_combos)
        /\ max_price <= previous.max_price => Included(valid_combos, previous.combos)

\* a call with a larger maximum that returned more than the non-empty result
\* of the call before
C4_Witness ==
    /\ called /\ previous.called /\ previous.max_stamps = max_stamps
    /\ previous.max_price < max_price
    /\ previous.combos # <<>>
    /\ Len(valid_combos) > Len(previous.combos)

\* C5: a call that differs from the one before only in a larger max_stamps
\* returns every combination of the call before; its combinations of at
\* most the earlier max_stamps stamps are exactly the earlier result.
C5_MonotoneInMaxStamps ==
    (called /\ previous.called /\ previous.max_price = max_price
        /\ previous.max_stamps <= max_stamps) =>
        /\ Included(previous.combos, valid_combos)
        /\ SelectSeq(valid_combos, LAMBDA c : Len(c) <= previous.max_stamps)
               = previous.combos

\* a call with a larger max_stamps that returned more than the non-empty
\* result of the call before
C5_Witness ==
    /\ called /\ previous.called /\ previous.max_price = max_price
    /\ previous.max_stamps < max_stamps
    /\ previous.combos # <<>>
    /\ Len(valid_combos) > Len(previous.combos)

\* round(f): nearest integer, ties to even, of a non-negative double
round(f) ==
    IF f.x >= 0 THEN Bits2Nat(Shl(f.m, f.x))
    ELSE Bits2Nat(DropBits(f.m, 0 - f.x, FALSE))

\* round(value * 100)
RoundedCents(k) == round(FloatMul(Float(k), 100))

RoundedTable == {[dollars |-> k, rounded |-> RoundedCents(k)] : k \in Amounts}

RoundedOf(k) == CHOOSE c \in RoundedTable : c.dollars = k

\* C6: price_cents and max_price_cents are round(value * 100) of the two
\* dollar amounts, the nearest whole number of cents.
C6_RoundedConversion ==
    called =>
        /\ price_cents = RoundedOf(price).rounded
        /\ max_price_cents = RoundedOf(max_price).rounded

----------------------------------------------------------------------------
(* C10: the search that stops extending a partial combination whose sum    *)
(* has reached the maximum.                                                *)

\* the position tuples of size n that extend `partial`, in lexicographic
\* order, none of them through a proper prefix whose sum is >= hi
RECURSIVE PrunedFrom(_, _, _, _, _)
PrunedFrom(pool, partial, from, n, hi) ==
    IF Len(partial) = n THEN <<partial>>
    ELSE IF partial # <<>> /\ Sum(Combo(pool, partial)) >= hi THEN <<>>
    ELSE IF from > Len(pool) THEN <<>>
    ELSE PrunedFrom(pool, Append(partial, from), from, n, hi)
         \o PrunedFrom(pool, partial, from + 1, n, hi)

RECURSIVE PrunedChain(_, _, _, _)
PrunedChain(pool, n, maxn, hi) ==
    IF n > maxn THEN <<>>
    ELSE PrunedFrom(pool, <<>>, 1, n, hi) \o PrunedChain(pool, n + 1, maxn, hi)

PrunedSelect(pool, maxn, lo, hi) ==
    SelectSeq(PrunedChain(pool, 1, maxn, hi),
              LAMBDA t : lo <= Sum(Combo(pool, t)) /\ Sum(Combo(pool, t)) <= hi)

\* C10: with positive denominations the pruning search returns the same
\* combinations in the same order, and no returned combination has a proper
\* non-empty prefix whose sum is >= max_price_cents.
C10_PruningEquivalent ==
    (called /\ Positive) =>
        /\ picked = PrunedSelect(stamps, max_stamps, price_cents, max_price_cents)
        /\ \A i \in 1..Len(valid_combos) :
            \A m \in 1..(Len(valid_combos[i]) - 1) :
                Sum(SubSeq(valid_combos[i], 1, m)) < max_price_cents

\* a call where the pruning search cuts a branch and a combination of
\* several stamps is returned
C10_Witness ==
    /\ called /\ Positive /\ max_stamps >= 2
    /\ \E i \in 1..Len(stamps) : stamps[i] >= max_price_cents
    /\ \E i \in 1..Len(valid_combos) : Len(valid_combos[i]) >= 2

----------------------------------------------------------------------------
(* Properties of main(), checked under Spec.                               *)

ErrorShown == \E m \in messages : m.kind = "error"

\* the denomination text supplies no value: it is empty, or no item is left
\* after split and strip
NoValues(text) == text = <<>> \/ Items(text) = <<>>

\* an item of the denomination text fails int()
Malformed(text) == \E i \in 1..Len(Items(text)) : ~IsInt(Items(text)[i])

\* C7: a press of the button with no denomination value, or with the
\* target, the maximum or the stamp count unset, shows an error and does not
\* call calculate_stamp_combos.
C7_MissingInputRejected ==
    (button /\ (NoValues(stamps_input) \/ price = None \/ max_price = None
                    \/ max_stamps = None)) =>
        (ErrorShown /\ ~called)

\* C8: a press of the button with a malformed denomination text and the
\* three numbers set shows an error, does not call calculate_stamp_combos,
\* and lets no exception leave the handler.
C8_MalformedRejected ==
    (button /\ Malformed(stamps_input) /\ price # None /\ max_price # None
        /\ max_stamps # None) =>
        (ErrorShown /\ ~called /\ raised = "none")

====
